---- MODULE Spec2Model ----
(***************************************************************************)
(* A model of the two tools of the AWS IAM user management toolkit:        *)
(*   get_aws_iam_info.py    the exporter (export_users_to_excel)           *)
(*   apply_user_changes.py  the applier  (apply_changes)                   *)
(* and of the part of the IAM service that the two tools read and change.  *)
(*                                                                         *)
(* Text is a sequence of atoms.  An atom is a blank, a comma, or a maximal *)
(* run of other characters ("g1", "Delete", "nan").  strip, lower, split   *)
(* and join work on these sequences the way the Python string methods work *)
(* on characters.                                                          *)
(***************************************************************************)
EXTENDS Integers, Sequences, FiniteSets, TLC

\* The number of accounts in the IAM account (one spreadsheet row each).
MaxUsers == 2

------------------------------------------------------------------------------
\* Text

Space == " "
Comma == ","

RECURSIVE lstrip(_)
lstrip(s) ==
  IF s # <<>> /\ Head(s) = Space THEN lstrip(Tail(s)) ELSE s

RECURSIVE rstrip(_)
rstrip(s) ==
  IF s # <<>> /\ s[Len(s)] = Space THEN rstrip(SubSeq(s, 1, Len(s) - 1)) ELSE s

\* str.strip()
strip(s) == rstrip(lstrip(s))

\* str.lower() on one atom: the atoms of the model that hold capitals.
LowerAtom(a) ==
  CASE a = "Delete" -> "delete"
    [] a = "DEACTIVATE" -> "deactivate"
    [] a = "Add_Group" -> "add_group"
    [] OTHER -> a

\* str.lower()
lower(s) == [k \in 1..Len(s) |-> LowerAtom(s[k])]

\* str.split(','): the pieces between the commas; ''.split(',') is [''].
RECURSIVE split(_)
split(s) ==
  IF \A k \in 1..Len(s) : s[k] # Comma
  THEN <<s>>
  ELSE LET k == CHOOSE k \in 1..Len(s) :
                  s[k] = Comma /\ \A j \in 1..(k - 1) : s[j] # Comma
       IN  <<SubSeq(s, 1, k - 1)>> \o split(SubSeq(s, k + 1, Len(s)))

\* ', '.join(names)
RECURSIVE join(_)
join(names) ==
  IF names = <<>> THEN <<>>
  ELSE IF Len(names) = 1 THEN names[1]
  ELSE names[1] \o <<Comma, Space>> \o join(Tail(names))

------------------------------------------------------------------------------
\* Values of a DataFrame cell, a dict entry or a spreadsheet cell.

Str(s) == [t |-> "str", v |-> s]            \* a Python str
NaN == [t |-> "nan", v |-> <<>>]            \* the float NaN of a missing value
None == [t |-> "none", v |-> <<>>]          \* Python None
NaT == [t |-> "nat", v |-> <<>>]            \* pandas NaT
IntVal(n) == [t |-> "int", v |-> <<n>>]        \* an int, by its decimal text
DateTime(a) == [t |-> "datetime", v |-> <<a>>]    \* a timezone-aware datetime
Timestamp(a) == [t |-> "timestamp", v |-> <<a>>]  \* a timezone-naive Timestamp
Blank == [t |-> "blank", v |-> <<>>]        \* a spreadsheet cell with no value

\* Python str(x): the text of a str is itself, the text of float NaN is 'nan'.
PyStr(x) == IF x.t = "nan" THEN <<"nan">> ELSE x.v

\* The texts pandas reads as a missing value (its default na_values; the
\* empty text is the one the exporter writes).
NaValues ==
  {<<>>, <<"NA">>, <<"N/A">>, <<"n/a">>, <<"NaN">>, <<"nan">>, <<"NULL">>,
   <<"null">>, <<"None">>, <<"<NA>">>, <<"#N/A">>, <<"#NA">>}

\* DataFrame.to_excel, for one value: a missing value (None, NaN, NaT) is
\* written as a cell with no value, any other value as it is.
ToExcelCell(x) == IF x.t \in {"none", "nan", "nat"} THEN Blank ELSE x

\* pd.read_excel, for one cell: a cell with no value, or a text cell whose
\* text is a missing-value text, is read as NaN.
ReadExcelCell(c) ==
  IF c.t = "blank" \/ (c.t = "str" /\ c.v \in NaValues) THEN NaN ELSE c

------------------------------------------------------------------------------
\* The IAM account the tools work on.

UserNames == <<"alice", "bob", "carol", "dave">>
Users == {<<UserNames[k]>> : k \in 1..MaxUsers}

\* list_users: the accounts in the order the service lists them.
UserList == [k \in 1..MaxUsers |-> <<UserNames[k]>>]

AwsPolicyPrefix == "arn:aws:iam::aws:policy/"
CustomerPolicyPrefix == "arn:aws:iam::123456789012:policy/"

\* f"arn:aws:iam::aws:policy/{p}"
arn(p) == <<AwsPolicyPrefix>> \o p

\* The PolicyName of an attached policy: its ARN without the prefix.
PolicyName(a) == Tail(a)

\* The account before the tool runs: group memberships, attached managed
\* policies (by ARN) and access keys (in listing order) of each user.
InitGroups(u) ==
  CASE u = <<"alice">> -> {<<"g1">>, <<"g2">>}
    [] u = <<"carol">> -> {<<"g2">>}
    [] OTHER -> {}

InitPolicies(u) ==
  CASE u = <<"alice">> -> {arn(<<"p1">>)}
    [] u = <<"bob">> -> {arn(<<"p2">>), <<CustomerPolicyPrefix, "c1">>}
    [] OTHER -> {}

InitKeys(u) ==
  CASE u = <<"alice">> -> << [AccessKeyId |-> "AK1", Status |-> "Active"],
                             [AccessKeyId |-> "AK2", Status |-> "Inactive"] >>
    [] u = <<"bob">> -> << [AccessKeyId |-> "AK3", Status |-> "Active"],
                           [AccessKeyId |-> "AK4", Status |-> "Active"] >>
    [] OTHER -> <<>>

\* Every ordering of a set: the order of a listing is the service's choice.
Orderings(S) ==
  {s \in [1..Cardinality(S) -> S] : \A a, b \in 1..Cardinality(S) : a # b => s[a] # s[b]}

------------------------------------------------------------------------------
\* The spreadsheet

OperatorColumns == {"Action", "NewGroups", "NewPolicies"}

\* The operator columns a spreadsheet given to apply_changes may hold: all
\* three, the Action column alone, or the two list columns alone.
ColumnChoices == {OperatorColumns, {"Action"}, {"NewGroups", "NewPolicies"}}

\* The columns apply_changes reads.
ReadColumns == {"UserName"} \cup OperatorColumns

\* The decimal text of a small count.
Decimal(n) == <<"0", "1", "2", "3", "4">>[n + 1]

\* get_access_key_last_used(...)['AccessKeyLastUsed'].get('LastUsedDate', 'Never')
LastUsedDate(id) ==
  CASE id = "AK1" -> DateTime("2024-03-01T08:00:00+00:00")
    [] OTHER -> Str(<<"Never">>)

IsActive(k) == k.Status = "Active"

\* get_user_details, lines 82-125, given the account's key list and the two
\* listings.  UserId, Arn, CreateDate, ConsoleAccess and MFAEnabled are copied
\* from the service and read by nothing else; they are left out.
get_user_details(u, ks, attached_policies, grps) ==
  [UserName |-> Str(u),
   AccessKeys |-> IntVal(Decimal(Len(ks))),
   ActiveKeys |-> IntVal(Decimal(Len(SelectSeq(ks, IsActive)))),
   LastKeyUsed |-> IF ks # <<>> THEN LastUsedDate(ks[1].AccessKeyId)
                   ELSE Str(<<"No", Space, "Keys">>),
   AttachedPolicies |->
     Str(join([k \in 1..Len(attached_policies) |-> PolicyName(attached_policies[k])])),
   Groups |-> Str(join(grps)),
   Action |-> Str(<<>>),
   NewGroups |-> Str(<<>>),
   NewPolicies |-> Str(<<>>)]

\* What an operator writes into the three operator columns of a row.
Edits ==
  { [Action |-> <<>>, NewGroups |-> <<>>, NewPolicies |-> <<>>],
    [Action |-> <<Space>>, NewGroups |-> <<"g1">>, NewPolicies |-> <<>>],
    [Action |-> <<Space, "Delete", Space>>, NewGroups |-> <<"g3">>, NewPolicies |-> <<"p2">>],
    [Action |-> <<"change_groups">>, NewGroups |-> <<"g2", Comma, Space, "g3">>, NewPolicies |-> <<>>],
    [Action |-> <<"change_groups">>, NewGroups |-> <<>>, NewPolicies |-> <<>>],
    [Action |-> <<"Add_Group">>, NewGroups |-> <<"g3", Comma, Comma, Space, "g1", Space>>, NewPolicies |-> <<>>],
    [Action |-> <<"remove_group">>, NewGroups |-> <<"g1">>, NewPolicies |-> <<>>],
    [Action |-> <<"add_policy">>, NewGroups |-> <<>>, NewPolicies |-> <<"p2", Comma, "p3">>],
    [Action |-> <<"remove_policy">>, NewGroups |-> <<"g1">>, NewPolicies |-> <<"p1">>],
    [Action |-> <<"DEACTIVATE">>, NewGroups |-> <<>>, NewPolicies |-> <<>>],
    [Action |-> <<"frobnicate">>, NewGroups |-> <<"g1">>, NewPolicies |-> <<"p1">>] }

\* DataFrame.to_excel(filename, index=False): every value of every row.
to_excel(frame) ==
  [k \in 1..Len(frame) |-> [c \in DOMAIN frame[k] |-> ToExcelCell(frame[k][c])]]

\* pd.read_excel(filename): every cell of every row.
read_excel(f) ==
  [k \in 1..Len(f) |-> [c \in DOMAIN f[k] |-> ReadExcelCell(f[k][c])]]

\* Some ordering of a set.
SomeOrdering(S) == CHOOSE s \in Orderings(S) : TRUE

\* The columns apply_changes reads of the file the exporter writes for an
\* account whose listing is us: one row per listed user.
ExportedFile(us) ==
  LET frame == [k \in 1..Len(us) |->
                  get_user_details(us[k], InitKeys(us[k]),
                                   SomeOrdering(InitPolicies(us[k])),
                                   SomeOrdering(InitGroups(us[k])))]
      f == to_excel(frame)
  IN  [k \in 1..Len(f) |-> [c \in ReadColumns |-> f[k][c]]]

\* The exported file after an operator's edit: row k holds the texts e[k] in
\* the operator columns, and only the operator columns in cols are kept.
EditedFile(us, e, cols) ==
  [k \in 1..Len(us) |->
     [c \in {"UserName"} \cup cols |->
        IF c = "UserName" THEN ExportedFile(us)[k][c] ELSE Str(e[k][c])]]

------------------------------------------------------------------------------
VARIABLES
  listed,       \* history: the accounts the exporter listed, in order
  users,        \* the names of the accounts that exist
  groups,       \* user -> set of the names of the groups listing the user
  policies,     \* user -> set of the ARNs of the attached managed policies
  keys,         \* user -> sequence of [AccessKeyId, Status]
  file,         \* the spreadsheet apply_changes is given
  df,           \* apply_changes: df = pd.read_excel(filename)
  i,            \* apply_changes: the index of the row of df.iterrows()
  pc,           \* apply_changes: the position in the row's handler
  todo,         \* apply_changes: what is left of the list being iterated
  calls,        \* history: the identity-service calls issued, in order
  visited,      \* history: the rows whose iteration started, in order
  errors,       \* history: the rows whose handler caught an exception
  snap,         \* history: the row's user as the row's iteration started
  epc,          \* export_users_to_excel: the position in the exporter
  gen_calls,    \* history: the generate_credential_report calls issued
  report,       \* get_credential_report: the outcome of the last poll
  cred_info,    \* export_users_to_excel: user -> credential report entry
  pending,      \* the users of the pages the paginator has not fetched yet
  page,         \* the users of the fetched page that are not collected yet
  all_details,  \* export_users_to_excel: the rows collected so far
  slept,        \* history: the poll loop has slept at least once
  out           \* the spreadsheet the exporter has written, if any

svars == <<listed, users, groups, policies, keys>>
avars == <<file, df, i, pc, todo, calls, visited, errors, snap>>
evars == <<epc, gen_calls, report, cred_info, pending, page, all_details, slept, out>>
vars == <<listed, users, groups, policies, keys, file, df, i, pc, todo, calls,
          visited, errors, snap, epc, gen_calls, report, cred_info, pending,
          page, all_details, slept, out>>

\* row.get(col, '')
RowGet(row, col) == IF col \in DOMAIN row THEN row[col] ELSE Str(<<>>)

NonEmpty(p) == p # <<>>

\* [x.strip() for x in str(cell).split(',') if x.strip()]
ParseList(cell) ==
  LET parts == split(PyStr(cell))
  IN  SelectSeq([k \in 1..Len(parts) |-> strip(parts[k])], NonEmpty)

username(k) == df[k]["UserName"].v

\* A variant of line 11 without .lower()
action_as_written(k) == strip(PyStr(RowGet(df[k], "Action")))

\* Line 11: str(row.get('Action', '')).strip().lower()
action(k) == lower(strip(PyStr(RowGet(df[k], "Action"))))
new_groups(k) == ParseList(RowGet(df[k], "NewGroups"))
new_policies(k) == ParseList(RowGet(df[k], "NewPolicies"))

------------------------------------------------------------------------------
\* The credential report

RootAccount == <<"<root_account>">>

\* The line of the credential report for a user: the columns the exporter
\* reads, as read_csv returns them.
CredEntry(u) ==
  CASE u = <<"alice">> ->
         [password_enabled |-> Str(<<"true">>),
          password_last_used |-> Str(<<"2024-05-01T10:00:00+00:00">>),
          password_last_changed |-> Str(<<"2024-01-15T09:30:00+00:00">>),
          access_key_1_last_used_date |-> Str(<<"2024-03-01T08:00:00+00:00">>),
          access_key_2_last_used_date |-> Str(<<"N/A">>)]
    [] u = RootAccount ->
         [password_enabled |-> Str(<<"not_supported">>),
          password_last_used |-> Str(<<"2024-06-01T12:00:00+00:00">>),
          password_last_changed |-> Str(<<"not_supported">>),
          access_key_1_last_used_date |-> Str(<<"N/A">>),
          access_key_2_last_used_date |-> Str(<<"N/A">>)]
    [] OTHER ->
         [password_enabled |-> Str(<<"false">>),
          password_last_used |-> Str(<<"no_information">>),
          password_last_changed |-> Str(<<"N/A">>),
          access_key_1_last_used_date |-> Str(<<"2024-02-02T02:02:02+00:00">>),
          access_key_2_last_used_date |-> Str(<<"2024-04-04T04:04:04+00:00">>)]

\* The content of a report that has a line for the root account and for
\* the users of S, keyed by the 'user' column (lines 73, 138-139).
ReportFor(S) == [u \in S \cup {RootAccount} |-> CredEntry(u)]

\* What one iam.get_credential_report() poll can come to: one of the two
\* kinds of exception, or a response dict with or without 'Content' and
\* 'State'.
PollOutcomes ==
  {[kind |-> "NotReady", body |-> <<>>], [kind |-> "Error", body |-> <<>>]}
  \cup {[kind |-> "Response", body |-> [Content |-> ReportFor(S)]] : S \in SUBSET Users}
  \cup {[kind |-> "Response", body |-> [State |-> st]] : st \in {"COMPLETE", "INPROGRESS"}}
  \cup {[kind |-> "Response", body |-> [Content |-> ReportFor({}), State |-> "COMPLETE"]]}

NoReport == [kind |-> "None", body |-> <<>>]
NotWritten == [written |-> FALSE, rows |-> <<>>]

\* Line 64: 'Content' in report or report.get('State') == 'COMPLETE'
ReportReady(r) ==
  \/ "Content" \in DOMAIN r.body
  \/ ("State" \in DOMAIN r.body /\ r.body["State"] = "COMPLETE")

DateTexts ==
  {<<"2024-05-01T10:00:00+00:00">>, <<"2024-01-15T09:30:00+00:00">>,
   <<"2024-03-01T08:00:00+00:00">>, <<"2024-06-01T12:00:00+00:00">>,
   <<"2024-02-02T02:02:02+00:00">>, <<"2024-04-04T04:04:04+00:00">>}

\* Series.dt.tz_localize(None): the UTC time without its offset.
Naive(a) ==
  CASE a = "2024-05-01T10:00:00+00:00" -> "2024-05-01 10:00:00"
    [] a = "2024-01-15T09:30:00+00:00" -> "2024-01-15 09:30:00"
    [] a = "2024-03-01T08:00:00+00:00" -> "2024-03-01 08:00:00"
    [] a = "2024-06-01T12:00:00+00:00" -> "2024-06-01 12:00:00"
    [] a = "2024-02-02T02:02:02+00:00" -> "2024-02-02 02:02:02"
    [] a = "2024-04-04T04:04:04+00:00" -> "2024-04-04 04:04:04"

\* Lines 180-183, for one value: pd.to_datetime(..., errors='coerce',
\* utc=True) then tz_localize(None).  A datetime or a date text becomes a
\* naive Timestamp; anything else becomes NaT.
to_datetime(x) ==
  IF x.t = "datetime" \/ (x.t = "str" /\ x.v \in DateTexts)
  THEN Timestamp(Naive(x.v[1]))
  ELSE NaT

date_columns ==
  {"CreateDate", "LastKeyUsed", "PasswordLastUsed", "PasswordLastChanged",
   "LastConsoleLogin", "AccessKey1LastUsed", "AccessKey2LastUsed"}

MergedFields ==
  {"PasswordEnabled", "PasswordLastUsed", "PasswordLastChanged",
   "LastConsoleLogin", "AccessKey1LastUsed", "AccessKey2LastUsed"}

\* Lines 152-157: the six fields of a user the report has an entry c for.
MergedFromReport(c) ==
  [PasswordEnabled |-> c.password_enabled,
   PasswordLastUsed |-> c.password_last_used,
   PasswordLastChanged |-> c.password_last_changed,
   LastConsoleLogin |-> c.password_last_used,
   AccessKey1LastUsed |-> c.access_key_1_last_used_date,
   AccessKey2LastUsed |-> c.access_key_2_last_used_date]

\* A variant of lines 159-164 that fills the fields from the report's first
\* line, the root account's.
MergedFromRoot(u, info) == MergedFromReport(info[RootAccount])

\* Lines 159-164: the six fields of a user the report has no entry for.
MergedMissing(u, info) == [f \in MergedFields |-> None]

\* Lines 150-164: the details of user u with the six fields merged in.
Merge(details, u, info) ==
  LET m == IF u \in DOMAIN info THEN MergedFromReport(info[u]) ELSE MergedMissing(u, info)
  IN  [c \in DOMAIN details \cup MergedFields |->
         IF c \in MergedFields THEN m[c] ELSE details[c]]

\* Lines 168-183: pd.DataFrame(all_details) with its date columns converted.
Normalize(rows) ==
  [k \in 1..Len(rows) |->
     [c \in DOMAIN rows[k] |->
        IF c \in date_columns THEN to_datetime(rows[k][c]) ELSE rows[k][c]]]

------------------------------------------------------------------------------
\* export_users_to_excel

\* An exception leaves export_users_to_excel: nothing more is done.
Abort ==
  /\ epc' = "aborted"
  /\ UNCHANGED <<svars, avars, cred_info, pending, page, all_details, slept, out>>

\* Line 56: iam.generate_credential_report()
GenerateCredentialReport ==
  /\ epc = "start"
  /\ gen_calls' = gen_calls + 1
  /\ \E ok \in BOOLEAN :
       IF ok
       THEN /\ epc' = "poll"
            /\ UNCHANGED <<svars, avars, report, cred_info, pending, page, all_details, slept, out>>
       ELSE Abort /\ UNCHANGED report

\* A variant of lines 61-68 whose except clause passes over any exception.
AfterPollRetryAny(r) ==
  CASE r.kind \in {"NotReady", "Error"} -> "sleep"
    [] r.kind = "Response" /\ ReportReady(r) -> "ready"
    [] OTHER -> "sleep"

\* Where the loop of lines 60-70 goes after a poll that came to r.
AfterPoll(r) ==
  CASE r.kind = "NotReady" -> "sleep"
    [] r.kind = "Error" -> "aborted"
    [] r.kind = "Response" /\ ReportReady(r) -> "ready"
    [] OTHER -> "sleep"

\* Lines 61-68: one poll of the report.
PollCredentialReport ==
  /\ epc = "poll"
  /\ \E r \in PollOutcomes :
       /\ report' = r
       /\ epc' = AfterPoll(r)
  /\ UNCHANGED <<svars, avars, gen_calls, cred_info, pending, page, all_details, slept, out>>

\* Line 70: time.sleep(2), then the loop polls again.
Sleep ==
  /\ epc = "sleep"
  /\ epc' = "poll"
  /\ slept' = TRUE
  /\ UNCHANGED <<svars, avars, gen_calls, report, cred_info, pending, page, all_details, out>>

\* Lines 72-75 and 138-142: report['Content'] is parsed and indexed by
\* user, and the listing of the accounts starts; a response without
\* 'Content' raises KeyError.
ReadReport ==
  /\ epc = "ready"
  /\ IF "Content" \in DOMAIN report.body
     THEN /\ cred_info' = report.body["Content"]
          /\ pending' = SelectSeq(UserList, LAMBDA u : u \in users)
          /\ listed' = pending'
          /\ epc' = "list"
          /\ UNCHANGED <<users, groups, policies, keys, avars, gen_calls, report, page,
                          all_details, slept, out>>
     ELSE Abort /\ UNCHANGED <<gen_calls, report>>

\* Line 144: the paginator fetches the next page of list_users.
NextPage ==
  /\ epc = "list"
  /\ page = <<>>
  /\ pending # <<>>
  /\ \E ok \in BOOLEAN :
       IF ok
       THEN /\ \E n \in 1..Len(pending) :
                 /\ page' = SubSeq(pending, 1, n)
                 /\ pending' = SubSeq(pending, n + 1, Len(pending))
            /\ UNCHANGED <<svars, avars, epc, gen_calls, report, cred_info, all_details, slept, out>>
       ELSE Abort /\ UNCHANGED <<gen_calls, report>>

\* Lines 145-166: the details of the page's next user are collected, merged
\* with the report and appended; an exception of a read call is not caught.
CollectUser ==
  /\ epc = "list"
  /\ page # <<>>
  /\ \E ok \in BOOLEAN :
       IF ok
       THEN LET user_name == Head(page)
            IN  /\ \E attached \in Orderings(policies[user_name]),
                      grps \in Orderings(groups[user_name]) :
                      all_details' =
                        Append(all_details,
                               Merge(get_user_details(user_name, keys[user_name], attached, grps),
                                     user_name, cred_info))
                /\ page' = Tail(page)
                /\ UNCHANGED <<svars, avars, epc, gen_calls, report, cred_info, pending, slept, out>>
       ELSE Abort /\ UNCHANGED <<gen_calls, report>>

\* Lines 168-186: the table is normalised and written.
WriteExcel ==
  /\ epc = "list"
  /\ page = <<>>
  /\ pending = <<>>
  /\ out' = [written |-> TRUE, rows |-> to_excel(Normalize(all_details))]
  /\ epc' = "done"
  /\ UNCHANGED <<svars, avars, gen_calls, report, cred_info, pending, page, all_details, slept>>

ExportInit ==
  /\ listed = <<>>
  /\ users \in SUBSET Users
  /\ groups = [u \in Users |-> InitGroups(u)]
  /\ policies = [u \in Users |-> InitPolicies(u)]
  /\ keys = [u \in Users |-> InitKeys(u)]
  /\ file = <<>>
  /\ df = <<>>
  /\ i = 1
  /\ pc = "idle"
  /\ todo = <<>>
  /\ calls = <<>>
  /\ visited = <<>>
  /\ errors = {}
  /\ snap = [exists |-> FALSE, groups |-> {}, policies |-> {}, keys |-> <<>>]
  /\ epc = "start"
  /\ gen_calls = 0
  /\ report = NoReport
  /\ cred_info = <<>>
  /\ pending = <<>>
  /\ page = <<>>
  /\ all_details = <<>>
  /\ slept = FALSE
  /\ out = NotWritten

ExportNext ==
  \/ GenerateCredentialReport
  \/ PollCredentialReport
  \/ Sleep
  \/ ReadReport
  \/ NextPage
  \/ CollectUser
  \/ WriteExcel

\* The exporter is a sequential program that keeps running: a poll that is
\* due is made, and the statement after it is executed.
ExportSpec == ExportInit /\ [][ExportNext]_vars /\ WF_vars(ExportNext)

------------------------------------------------------------------------------
\* apply_changes

Actions ==
  {<<"change_groups">>, <<"add_group">>, <<"remove_group">>, <<"add_policy">>,
   <<"remove_policy">>, <<"deactivate">>, <<"delete">>}

\* One identity-service call of row i, as the history records it.
Call(op, arg, ok) == [row |-> i, op |-> op, user |-> username(i), arg |-> arg, ok |-> ok]

\* A call may always raise (an injected failure, throttling, a missing
\* group); a call that names an account that does not exist always raises.
Outcomes(u) == IF u \in users THEN BOOLEAN ELSE {FALSE}

\* The state of the row's user, kept to state the claims.
Snapshot(u) ==
  [exists |-> u \in users, groups |-> groups[u], policies |-> policies[u], keys |-> keys[u]]

\* The for statement takes the next row, or the function ends.
NextRow ==
  /\ i' = i + 1
  /\ pc' = "loop"
  /\ todo' = <<>>

\* A variant of lines 71-72 with the try statement around the for loop: an
\* exception ends the loop.
RaiseAbort(c) ==
  /\ calls' = Append(calls, c)
  /\ errors' = errors \cup {i}
  /\ pc' = "done"
  /\ todo' = <<>>
  /\ UNCHANGED <<evars, svars, file, df, i, visited, snap>>

\* A variant of lines 71-72 that puts the row's user back as it was when
\* the row started.
RaiseRollback(c) ==
  /\ calls' = Append(calls, c)
  /\ errors' = errors \cup {i}
  /\ NextRow
  /\ groups' = [groups EXCEPT ![username(i)] = snap.groups]
  /\ policies' = [policies EXCEPT ![username(i)] = snap.policies]
  /\ keys' = [keys EXCEPT ![username(i)] = snap.keys]
  /\ UNCHANGED <<evars, listed, users, file, df, visited, snap>>

\* except Exception as e: print(...); the loop goes on with the next row.
Raise(c) ==
  /\ calls' = Append(calls, c)
  /\ errors' = errors \cup {i}
  /\ NextRow
  /\ UNCHANGED <<evars, svars, file, df, visited, snap>>

\* A variant of lines 21-60 whose last branch is a bare else.
DispatchElse(a) ==
  CASE a = <<"change_groups">> -> "list_groups"
    [] a = <<"add_group">> -> "add_new"
    [] a = <<"remove_group">> -> "remove_listed"
    [] a = <<"add_policy">> -> "attach"
    [] a = <<"remove_policy">> -> "detach_listed"
    [] a = <<"deactivate">> -> "list_keys"
    [] OTHER -> "list_groups"

\* Where a row's action starts inside the try statement.
Dispatch(a) ==
  CASE a = <<"change_groups">> -> "list_groups"
    [] a = <<"add_group">> -> "add_new"
    [] a = <<"remove_group">> -> "remove_listed"
    [] a = <<"add_policy">> -> "attach"
    [] a = <<"remove_policy">> -> "detach_listed"
    [] a = <<"deactivate">> -> "list_keys"
    [] a = <<"delete">> -> "list_groups"
    [] OTHER -> "loop"

\* The list the row's first loop iterates, when it is read from the row.
FirstList(a, k) ==
  CASE a \in {<<"add_group">>, <<"remove_group">>} -> new_groups(k)
    [] a \in {<<"add_policy">>, <<"remove_policy">>} -> new_policies(k)
    [] OTHER -> <<>>

\* Lines 9-21: the row is read; an empty action skips it (continue), an
\* action that no branch matches leaves the try statement at once.
BeginRow ==
  /\ pc = "loop"
  /\ i <= Len(df)
  /\ visited' = Append(visited, i)
  /\ snap' = Snapshot(username(i))
  /\ IF action(i) = <<>> \/ Dispatch(action(i)) = "loop"
     THEN NextRow
     ELSE /\ pc' = Dispatch(action(i))
          /\ todo' = FirstList(action(i), i)
          /\ i' = i
  /\ UNCHANGED <<evars, svars, file, df, calls, errors>>

\* Lines 23 and 62: iam.list_groups_for_user(UserName=username)['Groups']
ListGroupsForUser ==
  /\ pc = "list_groups"
  /\ \E ok \in Outcomes(username(i)) :
       IF ok
       THEN /\ \E old_groups \in Orderings(groups[username(i)]) : todo' = old_groups
            /\ pc' = "remove_old"
            /\ calls' = Append(calls, Call("list_groups_for_user", <<>>, TRUE))
            /\ UNCHANGED <<evars, svars, file, df, i, visited, errors, snap>>
       ELSE Raise(Call("list_groups_for_user", <<>>, FALSE))

\* Lines 25, 38 and 64: iam.remove_user_from_group(UserName=..., GroupName=g)
RemoveUserFromGroup ==
  /\ pc \in {"remove_old", "remove_listed"}
  /\ todo # <<>>
  /\ \E ok \in Outcomes(username(i)) :
       IF ok
       THEN /\ groups' = [groups EXCEPT ![username(i)] = @ \ {Head(todo)}]
            /\ calls' = Append(calls, Call("remove_user_from_group", Head(todo), TRUE))
            /\ todo' = Tail(todo)
            /\ UNCHANGED <<evars, listed, users, policies, keys, file, df, i, pc, visited, errors, snap>>
       ELSE Raise(Call("remove_user_from_group", Head(todo), FALSE))

\* Lines 28 and 33: iam.add_user_to_group(UserName=username, GroupName=g)
AddUserToGroup ==
  /\ pc = "add_new"
  /\ todo # <<>>
  /\ \E ok \in Outcomes(username(i)) :
       IF ok
       THEN /\ groups' = [groups EXCEPT ![username(i)] = @ \cup {Head(todo)}]
            /\ calls' = Append(calls, Call("add_user_to_group", Head(todo), TRUE))
            /\ todo' = Tail(todo)
            /\ UNCHANGED <<evars, listed, users, policies, keys, file, df, i, pc, visited, errors, snap>>
       ELSE Raise(Call("add_user_to_group", Head(todo), FALSE))

\* Lines 43-44: iam.attach_user_policy(UserName=username, PolicyArn=arn)
AttachUserPolicy ==
  /\ pc = "attach"
  /\ todo # <<>>
  /\ \E ok \in Outcomes(username(i)) :
       IF ok
       THEN /\ policies' = [policies EXCEPT ![username(i)] = @ \cup {arn(Head(todo))}]
            /\ calls' = Append(calls, Call("attach_user_policy", arn(Head(todo)), TRUE))
            /\ todo' = Tail(todo)
            /\ UNCHANGED <<evars, listed, users, groups, keys, file, df, i, pc, visited, errors, snap>>
       ELSE Raise(Call("attach_user_policy", arn(Head(todo)), FALSE))

\* The PolicyArn a detach call is given: built from the name in the row
\* (lines 49-50), or the one the listing returned (line 67).
DetachArn(p) == IF pc = "detach_listed" THEN arn(p) ELSE p

\* Lines 50 and 67: iam.detach_user_policy(UserName=username, PolicyArn=...)
DetachUserPolicy ==
  /\ pc \in {"detach_listed", "detach_attached"}
  /\ todo # <<>>
  /\ \E ok \in Outcomes(username(i)) :
       IF ok
       THEN /\ policies' = [policies EXCEPT ![username(i)] = @ \ {DetachArn(Head(todo))}]
            /\ calls' = Append(calls, Call("detach_user_policy", DetachArn(Head(todo)), TRUE))
            /\ todo' = Tail(todo)
            /\ UNCHANGED <<evars, listed, users, groups, keys, file, df, i, pc, visited, errors, snap>>
       ELSE Raise(Call("detach_user_policy", DetachArn(Head(todo)), FALSE))

\* Line 54: iam.list_access_keys(UserName=username)['AccessKeyMetadata']
ListAccessKeys ==
  /\ pc = "list_keys"
  /\ \E ok \in Outcomes(username(i)) :
       IF ok
       THEN /\ todo' = keys[username(i)]
            /\ pc' = "keys_loop"
            /\ calls' = Append(calls, Call("list_access_keys", <<>>, TRUE))
            /\ UNCHANGED <<evars, svars, file, df, i, visited, errors, snap>>
       ELSE Raise(Call("list_access_keys", <<>>, FALSE))

\* The service sets the status of the key with the given id.
SetStatus(ks, id, st) ==
  [k \in 1..Len(ks) |-> IF ks[k].AccessKeyId = id THEN [ks[k] EXCEPT !.Status = st] ELSE ks[k]]

\* A variant of line 56 that tests nothing.
ShouldDeactivateAny(k) == TRUE

\* Line 56: if k['Status'] == 'Active'
ShouldDeactivate(k) == k.Status = "Active"

\* Lines 56-57: a key listed as Active is set Inactive.
UpdateAccessKey ==
  /\ pc = "keys_loop"
  /\ todo # <<>>
  /\ ShouldDeactivate(Head(todo))
  /\ \E ok \in Outcomes(username(i)) :
       IF ok
       THEN /\ keys' = [keys EXCEPT ![username(i)] =
                          SetStatus(@, Head(todo).AccessKeyId, "Inactive")]
            /\ calls' = Append(calls, Call("update_access_key", Head(todo).AccessKeyId, TRUE))
            /\ todo' = Tail(todo)
            /\ UNCHANGED <<evars, listed, users, groups, policies, file, df, i, pc, visited, errors, snap>>
       ELSE Raise(Call("update_access_key", Head(todo).AccessKeyId, FALSE))

\* Line 56: a key listed with another status is passed over.
SkipInactiveKey ==
  /\ pc = "keys_loop"
  /\ todo # <<>>
  /\ ~ShouldDeactivate(Head(todo))
  /\ todo' = Tail(todo)
  /\ UNCHANGED <<evars, svars, file, df, i, pc, calls, visited, errors, snap>>

\* Line 65: iam.list_attached_user_policies(...)['AttachedPolicies']
ListAttachedUserPolicies ==
  /\ pc = "list_attached"
  /\ \E ok \in Outcomes(username(i)) :
       IF ok
       THEN /\ \E attached \in Orderings(policies[username(i)]) : todo' = attached
            /\ pc' = "detach_attached"
            /\ calls' = Append(calls, Call("list_attached_user_policies", <<>>, TRUE))
            /\ UNCHANGED <<evars, svars, file, df, i, visited, errors, snap>>
       ELSE Raise(Call("list_attached_user_policies", <<>>, FALSE))

\* Line 68: iam.delete_user(UserName=username)
DeleteUser ==
  /\ pc = "delete_user"
  /\ \E ok \in Outcomes(username(i)) :
       IF ok
       THEN /\ users' = users \ {username(i)}
            /\ calls' = Append(calls, Call("delete_user", <<>>, TRUE))
            /\ NextRow
            /\ UNCHANGED <<evars, listed, groups, policies, keys, file, df, visited, errors, snap>>
       ELSE Raise(Call("delete_user", <<>>, FALSE))

\* A variant of lines 60-68 without the lines 65-67.
AfterLoopNoDetach(p, a) ==
  CASE p = "remove_old" /\ a = <<"change_groups">> -> "add_new"
    [] p = "remove_old" /\ a = <<"delete">> -> "delete_user"
    [] OTHER -> "loop"

\* Where control goes when a for loop of the row has no item left.
AfterLoop(p, a) ==
  CASE p = "remove_old" /\ a = <<"change_groups">> -> "add_new"
    [] p = "remove_old" /\ a = <<"delete">> -> "list_attached"
    [] p = "detach_attached" -> "delete_user"
    [] OTHER -> "loop"

\* A for loop of the row ends: the next statement of the branch follows,
\* or the row is complete.
LoopExit ==
  /\ pc \in {"remove_old", "add_new", "remove_listed", "attach", "detach_listed",
             "keys_loop", "detach_attached"}
  /\ todo = <<>>
  /\ IF AfterLoop(pc, action(i)) = "loop"
     THEN NextRow
     ELSE /\ pc' = AfterLoop(pc, action(i))
          /\ todo' = IF pc' = "add_new" THEN new_groups(i) ELSE <<>>
          /\ i' = i
  /\ UNCHANGED <<evars, svars, file, df, calls, visited, errors, snap>>

\* Line 74: no row is left.
Finish ==
  /\ pc = "loop"
  /\ i > Len(df)
  /\ pc' = "done"
  /\ UNCHANGED <<evars, svars, file, df, i, todo, calls, visited, errors, snap>>

Init ==
  /\ \E n \in 0..MaxUsers : listed = SubSeq(UserList, 1, n)
  /\ users = {listed[k] : k \in 1..Len(listed)}
  /\ groups = [u \in Users |-> InitGroups(u)]
  /\ policies = [u \in Users |-> InitPolicies(u)]
  /\ keys = [u \in Users |-> InitKeys(u)]
  /\ \E e \in [1..Len(listed) -> Edits], cols \in ColumnChoices :
       file = EditedFile(listed, e, cols)
  /\ df = read_excel(file)
  /\ i = 1
  /\ pc = "loop"
  /\ todo = <<>>
  /\ calls = <<>>
  /\ visited = <<>>
  /\ errors = {}
  /\ snap = [exists |-> FALSE, groups |-> {}, policies |-> {}, keys |-> <<>>]
  /\ epc = "idle"
  /\ gen_calls = 0
  /\ report = NoReport
  /\ cred_info = <<>>
  /\ pending = <<>>
  /\ page = <<>>
  /\ all_details = <<>>
  /\ slept = FALSE
  /\ out = NotWritten

Next ==
  \/ BeginRow
  \/ ListGroupsForUser
  \/ RemoveUserFromGroup
  \/ AddUserToGroup
  \/ AttachUserPolicy
  \/ DetachUserPolicy
  \/ ListAccessKeys
  \/ UpdateAccessKey
  \/ SkipInactiveKey
  \/ ListAttachedUserPolicies
  \/ DeleteUser
  \/ LoopExit
  \/ Finish

Spec == Init /\ [][Next]_vars

\* The statement apply_changes is at can be executed: the for statement
\* takes a row or ends, a call returns or raises, a loop takes an item or
\* ends.
StepPossible ==
  \/ pc = "loop"
  \/ pc \in {"list_groups", "list_keys", "list_attached", "delete_user"}
  \/ pc \in {"remove_old", "add_new", "remove_listed", "attach", "detach_listed",
             "keys_loop", "detach_attached"}

\* StepPossible is the enabling condition of Next.
StepPossibleIsEnabled == StepPossible <=> ENABLED Next

------------------------------------------------------------------------------
\* What the claims are stated with

MutationOps ==
  {"add_user_to_group", "remove_user_from_group", "attach_user_policy",
   "detach_user_policy", "update_access_key", "delete_user"}

IsMutation(c) == c.op \in MutationOps

\* The calls issued while row k was processed, in order.
RowCalls(k) == SelectSeq(calls, LAMBDA c : c.row = k)

\* The arguments of the calls of operation op among the calls cs.
Args(cs, op) == {cs[a].arg : a \in {b \in 1..Len(cs) : cs[b].op = op}}

\* How many calls of cs are the operation op with the argument arg.
Count(cs, op, arg) == Cardinality({a \in 1..Len(cs) : cs[a].op = op /\ cs[a].arg = arg})

\* The row being processed, or the last one that was.
cur == visited[Len(visited)]

\* Row k was processed to its end / without an exception.
Ended(k) == k \in 1..Len(visited) /\ k < i
Completed(k) == Ended(k) /\ k \notin errors

\* The text written in a cell of the spreadsheet; a column that is absent
\* holds no text.
Written(k, col) == IF col \in DOMAIN file[k] THEN file[k][col].v ELSE <<>>

\* The action a row asks for: the written text, trimmed and lower-cased.
AskedAction(k) == lower(strip(Written(k, "Action")))

\* The names written in a list cell of the spreadsheet.
WrittenNames(k, col) ==
  LET l == ParseList(Str(Written(k, col))) IN {l[a] : a \in 1..Len(l)}

\* The state a row's user is in after the successful calls of cs, from st.
ApplyCall(st, c) ==
  IF ~c.ok THEN st
  ELSE CASE c.op = "add_user_to_group" -> [st EXCEPT !.groups = @ \cup {c.arg}]
         [] c.op = "remove_user_from_group" -> [st EXCEPT !.groups = @ \ {c.arg}]
         [] c.op = "attach_user_policy" -> [st EXCEPT !.policies = @ \cup {c.arg}]
         [] c.op = "detach_user_policy" -> [st EXCEPT !.policies = @ \ {c.arg}]
         [] c.op = "update_access_key" -> [st EXCEPT !.keys = SetStatus(@, c.arg, "Inactive")]
         [] c.op = "delete_user" -> [st EXCEPT !.exists = FALSE]
         [] OTHER -> st

RECURSIVE Replay(_, _)
Replay(st, cs) == IF cs = <<>> THEN st ELSE Replay(ApplyCall(st, Head(cs)), Tail(cs))

\* The ids of the keys of ks that are listed as Active.
ActiveIds(ks) == {ks[k].AccessKeyId : k \in {j \in 1..Len(ks) : ks[j].Status = "Active"}}
KeyIds(ks) == {ks[k].AccessKeyId : k \in 1..Len(ks)}

\* The order of the calls of a delete row.
DeleteRank ==
  [list_groups_for_user |-> 1, remove_user_from_group |-> 2,
   list_attached_user_policies |-> 3, detach_user_policy |-> 4, delete_user |-> 5]

\* The calls a row with the action a may issue.
AllowedOps(a) ==
  CASE a = <<"change_groups">> ->
         {"list_groups_for_user", "remove_user_from_group", "add_user_to_group"}
    [] a = <<"add_group">> -> {"add_user_to_group"}
    [] a = <<"remove_group">> -> {"remove_user_from_group"}
    [] a = <<"add_policy">> -> {"attach_user_policy"}
    [] a = <<"remove_policy">> -> {"detach_user_policy"}
    [] a = <<"deactivate">> -> {"list_access_keys", "update_access_key"}
    [] a = <<"delete">> -> DOMAIN DeleteRank
    [] OTHER -> {}

------------------------------------------------------------------------------
\* C1: when the spreadsheet is the one the exporter wrote for the account,
\* with every operator cell left as the exporter's placeholder, apply_changes
\* issues no mutation call for any row.
C1_RoundTripNoMutation ==
  file = ExportedFile(listed) => SelectSeq(calls, IsMutation) = <<>>

C1_Witness ==
  /\ file = ExportedFile(listed)
  /\ pc = "done"
  /\ Len(visited) = MaxUsers

\* C3: rows are visited in spreadsheet order, each exactly once; a call that
\* raises is the last call of its row, the rows after it are still processed,
\* and apply_changes reaches its end with every row visited.
C3_RowIsolation ==
  /\ \A k \in 1..Len(visited) : visited[k] = k
  /\ Len(visited) = IF pc \in {"loop", "done"} THEN i - 1 ELSE i
  /\ pc = "done" => Len(visited) = Len(df)
  /\ \A a, b \in 1..Len(calls) : a < b => calls[a].row <= calls[b].row
  /\ \A a \in 1..Len(calls) :
       ~calls[a].ok =>
         /\ calls[a].row \in errors
         /\ calls[a].row < i
         /\ a = Len(calls) \/ calls[a + 1].row > calls[a].row
  /\ \A k \in errors : \E a \in 1..Len(calls) : calls[a].row = k /\ ~calls[a].ok
  /\ pc # "done" => StepPossible

C3_Witness ==
  /\ pc = "done"
  /\ 1 \in errors
  /\ RowCalls(1) # <<>>
  /\ RowCalls(2) # <<>>

\* C6: a row whose written Action, trimmed and lower-cased, is empty or is
\* not one of the seven actions issues no call, raises nothing and is left at
\* once for the next row, whatever its NewGroups and NewPolicies hold; a row
\* whose Action is one of the seven in any letter case runs that action (it
\* issues no call only when the list it iterates is empty).
C6_UnrecognisedSkipped ==
  \A k \in 1..Len(visited) :
    /\ AskedAction(k) \notin Actions =>
         RowCalls(k) = <<>> /\ k \notin errors /\ k < i
    /\ (AskedAction(k) \in Actions /\ Completed(k) /\ RowCalls(k) = <<>>) =>
         \/ AskedAction(k) \in {<<"add_group">>, <<"remove_group">>}
              /\ WrittenNames(k, "NewGroups") = {}
         \/ AskedAction(k) \in {<<"add_policy">>, <<"remove_policy">>}
              /\ WrittenNames(k, "NewPolicies") = {}

C6_Witness ==
  /\ pc = "done"
  /\ Len(file) >= 2
  /\ AskedAction(1) = <<"frobnicate">>
  /\ WrittenNames(1, "NewGroups") # {}
  /\ Written(2, "Action") = <<Space, "Delete", Space>>
  /\ Completed(2)
  /\ RowCalls(2) # <<>>

\* C2: in a delete row the calls are, in this order, the removal from every
\* group that listed the user, the detachment of every policy that was
\* attached, and delete_user; delete_user is issued only after all of them
\* returned without error, and nothing is called for NewGroups or NewPolicies.
C2_DeleteOrder ==
  (visited # <<>> /\ AskedAction(cur) = <<"delete">>) =>
    LET rc == RowCalls(cur)
        n == Len(rc)
    IN  /\ \A a \in 1..n : rc[a].op \in DOMAIN DeleteRank
        /\ \A a, b \in 1..n : a < b => DeleteRank[rc[a].op] <= DeleteRank[rc[b].op]
        /\ Args(rc, "remove_user_from_group") \subseteq snap.groups
        /\ Args(rc, "detach_user_policy") \subseteq snap.policies
        /\ \A g \in snap.groups : Count(rc, "remove_user_from_group", g) <= 1
        /\ \A p \in snap.policies : Count(rc, "detach_user_policy", p) <= 1
        /\ \A a \in 1..n :
             rc[a].op \in {"list_attached_user_policies", "detach_user_policy", "delete_user"} =>
               /\ Args(rc, "remove_user_from_group") = snap.groups
               /\ \A b \in 1..(a - 1) : rc[b].ok
        /\ \A a \in 1..n :
             rc[a].op = "delete_user" =>
               /\ a = n
               /\ Args(rc, "detach_user_policy") = snap.policies
        /\ Completed(cur) => n > 0 /\ rc[n].op = "delete_user" /\ rc[n].ok

C2_Witness ==
  /\ visited # <<>>
  /\ AskedAction(cur) = <<"delete">>
  /\ Completed(cur)
  /\ snap.groups # {}
  /\ snap.policies # {}
  /\ WrittenNames(cur, "NewGroups") # {}
  /\ WrittenNames(cur, "NewPolicies") # {}

\* C5: in a deactivate row update_access_key is issued at most once for a key
\* listed as Active and never for another key, no group, policy or delete call
\* is issued, and when the row completes without error every key that was
\* Active was updated, the user has no active key and has the same keys.
C5_DeactivateActiveOnly ==
  (visited # <<>> /\ AskedAction(cur) = <<"deactivate">>) =>
    LET rc == RowCalls(cur)
        u == username(cur)
    IN  /\ \A a \in 1..Len(rc) : rc[a].op \in {"list_access_keys", "update_access_key"}
        /\ Args(rc, "update_access_key") \subseteq ActiveIds(snap.keys)
        /\ \A id \in KeyIds(snap.keys) : Count(rc, "update_access_key", id) <= 1
        /\ groups[u] = snap.groups
        /\ policies[u] = snap.policies
        /\ (u \in users) = snap.exists
        /\ Completed(cur) =>
             /\ Args(rc, "update_access_key") = ActiveIds(snap.keys)
             /\ ActiveIds(keys[u]) = {}
             /\ Len(keys[u]) = Len(snap.keys)
             /\ KeyIds(keys[u]) = KeyIds(snap.keys)

C5_Witness ==
  /\ visited # <<>>
  /\ AskedAction(cur) = <<"deactivate">>
  /\ Completed(cur)
  /\ ActiveIds(snap.keys) # {}
  /\ ActiveIds(snap.keys) # KeyIds(snap.keys)

\* C10 as stated: a delete row that failed after a policy was detached has
\* left the account in existence with its group memberships intact.
C10_DeleteFailsBeforeGroups ==
  (/\ visited # <<>>
   /\ AskedAction(cur) = <<"delete">>
   /\ cur \in errors
   /\ \E a \in 1..Len(RowCalls(cur)) :
        RowCalls(cur)[a].op = "detach_user_policy" /\ RowCalls(cur)[a].ok) =>
    /\ username(cur) \in users
    /\ groups[username(cur)] = snap.groups

\* C10, amended: the user of a row is in the state the row's successful
\* calls put it in, whether the row failed or not, and a row issues no call
\* other than those of its action (none that compensates); a delete row that
\* fails after the group removals and before any policy is detached leaves
\* the account in existence, out of every group that listed it, with its
\* policies still attached.
C10_NoRollback ==
  visited # <<>> =>
    LET rc == RowCalls(cur)
        u == username(cur)
    IN  /\ Snapshot(u) = Replay(snap, rc)
        /\ \A a \in 1..Len(rc) : rc[a].op \in AllowedOps(AskedAction(cur))
        /\ (/\ AskedAction(cur) = <<"delete">>
            /\ cur \in errors
            /\ rc[Len(rc)].op = "list_attached_user_policies") =>
             /\ u \in users
             /\ groups[u] \cap snap.groups = {}
             /\ policies[u] = snap.policies

C10_Witness ==
  /\ visited # <<>>
  /\ AskedAction(cur) = <<"delete">>
  /\ cur \in errors
  /\ RowCalls(cur)[Len(RowCalls(cur))].op = "list_attached_user_policies"
  /\ snap.groups # {}
  /\ snap.policies # {}
  /\ groups[username(cur)] = {}

\* C4 as stated: a missing Action, NewGroups or NewPolicies value is read as
\* the empty string: a row with no Action issues no call, and a group or
\* policy call of a row names only what is written in the row's list cell.
C4_MissingValueIsEmpty ==
  \A k \in 1..Len(visited) :
    LET rc == RowCalls(k)
        a == AskedAction(k)
    IN  /\ Written(k, "Action") = <<>> => rc = <<>>
        /\ a \in {<<"add_group">>, <<"change_groups">>} =>
             Args(rc, "add_user_to_group") \subseteq WrittenNames(k, "NewGroups")
        /\ a = <<"remove_group">> =>
             Args(rc, "remove_user_from_group") \subseteq WrittenNames(k, "NewGroups")
        /\ a = <<"add_policy">> =>
             Args(rc, "attach_user_policy")
               \subseteq {arn(p) : p \in WrittenNames(k, "NewPolicies")}
        /\ a = <<"remove_policy">> =>
             Args(rc, "detach_user_policy")
               \subseteq {arn(p) : p \in WrittenNames(k, "NewPolicies")}

\* C9 as stated: in a change_groups row every removal precedes every
\* addition, no addition follows a removal that failed, and when the row
\* completes without error the user is in exactly the groups written in
\* NewGroups.
C9_ChangeGroups ==
  (visited # <<>> /\ AskedAction(cur) = <<"change_groups">>) =>
    LET rc == RowCalls(cur)
        u == username(cur)
    IN  /\ \A a, b \in 1..Len(rc) :
             (rc[a].op = "add_user_to_group" /\ rc[b].op = "remove_user_from_group") => b < a
        /\ \A a, b \in 1..Len(rc) :
             (rc[a].op = "remove_user_from_group" /\ ~rc[a].ok) => rc[b].op # "add_user_to_group"
        /\ Completed(cur) => groups[u] = WrittenNames(cur, "NewGroups")

------------------------------------------------------------------------------
\* The claims about the exporter, under ExportSpec

\* The columns apply_changes reads of the spreadsheet the exporter writes
\* are those of ExportedFile, which the specification of apply_changes
\* starts from.
ExporterWritesExportedFile ==
  out.written =>
    [k \in 1..Len(out.rows) |-> [c \in ReadColumns |-> out.rows[k][c]]] = ExportedFile(listed)

\* C8: a collected row of a user the credential report has no entry for holds
\* each of the six merged fields, all None, and the written spreadsheet holds
\* each of them as a cell with no value: no zero, no empty text, no value of
\* another entry of the report.
C8_MissingEntryIsNull ==
  /\ \A k \in 1..Len(all_details) :
       all_details[k]["UserName"].v \notin DOMAIN cred_info =>
         \A f \in MergedFields :
           f \in DOMAIN all_details[k] /\ all_details[k][f] = None
  /\ out.written =>
       /\ Len(out.rows) = Len(all_details)
       /\ \A k \in 1..Len(out.rows) :
            out.rows[k]["UserName"].v \notin DOMAIN cred_info =>
              \A f \in MergedFields :
                f \in DOMAIN out.rows[k] /\ out.rows[k][f] = Blank

C8_Witness ==
  /\ out.written
  /\ \E k \in 1..Len(out.rows) : out.rows[k]["UserName"].v \notin DOMAIN cred_info
  /\ \E k \in 1..Len(out.rows) :
       /\ out.rows[k]["UserName"].v \in DOMAIN cred_info
       /\ out.rows[k]["PasswordLastUsed"] # Blank

\* C7 as stated: the poll loop goes round again only after a 'not ready yet'
\* exception.
C7_OnlyNotReadyExceptionRetries ==
  [][epc' = "sleep" => report'.kind = "NotReady"]_vars

\* C7, amended: generation is triggered once, before the first poll; the loop
\* goes round again only after a 'not ready yet' exception or a response that
\* holds neither 'Content' nor the state COMPLETE, and then it always polls
\* again; any other exception ends the export with no spreadsheet written;
\* the function returns only with a report that has content; and once a poll
\* is answered with a report that has content, the function returns.
C7_ReportRetrieval ==
  /\ [](gen_calls = IF epc = "start" THEN 0 ELSE 1)
  /\ [][epc' = "sleep" =>
          \/ report'.kind = "NotReady"
          \/ report'.kind = "Response" /\ ~ReportReady(report')]_vars
  /\ [][epc = "sleep" => epc' = "poll"]_vars
  /\ [](report.kind = "Error" => epc = "aborted")
  /\ [](epc = "aborted" => ~out.written)
  /\ [](epc \in {"list", "done"} => "Content" \in DOMAIN report.body)
  /\ (epc = "ready" /\ "Content" \in DOMAIN report.body) ~> (epc = "list")

C7_Witness ==
  /\ epc = "list"
  /\ slept
  /\ gen_calls = 1
  /\ \E u \in Users : u \in DOMAIN cred_info

====
